---- MODULE Spec2Model ----
(***************************************************************************)
(* The UdonSharp language server: the notification handlers               *)
(* (didOpen / didChange / didClose / didChangeConfiguration), the          *)
(* workspace manager, the analysis service, the diagnostics publisher and  *)
(* the configuration service, as a state machine.                          *)
(*                                                                         *)
(* Every handler invocation is a task.  A task advances one step at a time *)
(* and the steps of different tasks interleave: the handlers are async     *)
(* methods that await with ConfigureAwait(false), and WorkspaceManager,    *)
(* SettingsProvider and PolicyRepository hold no lock.                     *)
(***************************************************************************)
EXTENDS Integers, Sequences, FiniteSets, TLC

(***************************************************************************)
(* Bounds of the model.                                                    *)
(***************************************************************************)
MaxTasks == 3

\* How many handlers run at the same time.
MaxRunning == 2

\* The longest rules array of a policy pack file that is enumerated.
MaxElements == 2

\* The longest document, in syntax nodes, that is analysed node by node.
MaxNodes == 2

(***************************************************************************)
(* Inputs.                                                                 *)
(***************************************************************************)
Uris == {"a.cs", "b.cs"}

\* "" is string.Empty: the text of a didChange without content changes.
Texts == {"", "A"}

NoDocument == [text |-> "", rev |-> 0, project |-> 0]
NoId == [project |-> 0, uri |-> ""]
NoFault == "none"

(***************************************************************************)
(* Settings.                                                               *)
(***************************************************************************)
EmptyMap == [x \in {} |-> ""]

Default ==
    [Profile |-> "latest", RuleOverrides |-> EmptyMap,
     UnityApiSurface |-> "bundled-stubs", CustomStubPath |-> "",
     PolicyPackPaths |-> << >>]

StrictSettings ==
    [Profile |-> "strict_experimental",
     RuleOverrides |-> [x \in {"USH0043"} |-> "off"],
     UnityApiSurface |-> "none", CustomStubPath |-> "",
     PolicyPackPaths |-> << "extra.json" >>]

\* The payloads of workspace/didChangeConfiguration: without a udonsharpLinter
\* section, with a section that does not deserialize, with a section.
Payloads ==
    { [section |-> FALSE, valid |-> TRUE, settings |-> Default],
      [section |-> TRUE, valid |-> FALSE, settings |-> StrictSettings],
      [section |-> TRUE, valid |-> TRUE, settings |-> StrictSettings] }

TryExtractSettingsElement(payload) == payload.section

\* SettingsProvider.Update(JsonElement) then Current: a section that fails to
\* deserialize yields LinterSettings.Default.
Deserialize(payload) == IF payload.valid THEN payload.settings ELSE Default

(***************************************************************************)
(* Policy packs and the policy repository.                                 *)
(***************************************************************************)
\* The strings of the model that are not already in the form
\* ToUpperInvariant / ToLowerInvariant gives them.
ToUpperInvariant(s) ==
    CASE s = "ush0043" -> "USH0043"
      [] s = "ush0044" -> "USH0044"
      [] s = "Ush0045" -> "USH0045"
      [] s = "latest" -> "LATEST"
      [] s \in {"strict_experimental", "Strict_Experimental"} -> "STRICT_EXPERIMENTAL"
      [] OTHER -> s

ToLowerInvariant(s) ==
    CASE s = "Error" -> "error"
      [] s = "OFF" -> "off"
      [] s = "Hidden" -> "hidden"
      [] OTHER -> s

\* StringComparer.OrdinalIgnoreCase.
EqualsIgnoreCase(a, b) == ToUpperInvariant(a) = ToUpperInvariant(b)

ToSeverity(severity) ==
    LET lower == ToLowerInvariant(severity)
    IN CASE lower = "error" -> "Error"
         [] lower \in {"warn", "warning"} -> "Warning"
         [] lower \in {"info", "information"} -> "Info"
         [] lower = "hidden" -> "Hidden"
         [] lower = "off" -> "Hidden"
         [] OTHER -> "Warning"

\* PolicyRuleDefinition.GetSeverity: overrides is a Dictionary with the
\* default (ordinal) comparer, ProfileSeverities one with OrdinalIgnoreCase.
RuleGetSeverityProfileFirst(rule, profile, overrides) ==
    IF \E k \in DOMAIN rule.ProfileSeverities : EqualsIgnoreCase(k, profile)
    THEN ToSeverity(rule.ProfileSeverities[
             CHOOSE k \in DOMAIN rule.ProfileSeverities : EqualsIgnoreCase(k, profile)])
    ELSE IF rule.Id \in DOMAIN overrides THEN ToSeverity(overrides[rule.Id])
         ELSE ToSeverity(rule.DefaultSeverity)

RuleGetSeverity(rule, profile, overrides) ==
    IF rule.Id \in DOMAIN overrides THEN ToSeverity(overrides[rule.Id])
    ELSE IF \E k \in DOMAIN rule.ProfileSeverities : EqualsIgnoreCase(k, profile)
         THEN ToSeverity(rule.ProfileSeverities[
                  CHOOSE k \in DOMAIN rule.ProfileSeverities : EqualsIgnoreCase(k, profile)])
         ELSE ToSeverity(rule.DefaultSeverity)

\* An element of a pack's rules array.  missing names the property the element
\* lacks: "none", "object" (the element is not an object), "id", "title",
\* "message", "category" or "defaultSeverity".
RuleElement(id, severity, profiles) ==
    [id |-> id, defaultSeverity |-> severity, profiles |-> profiles, missing |-> "none"]

RequiredProperties == {"title", "message", "category", "defaultSeverity"}

\* TryParseRule: false for an element that is no object or has no id; the
\* GetProperty of an absent title, message, category or defaultSeverity throws.
TryParseRule(element) ==
    IF element.missing \in {"object", "id"} THEN "skipped"
    ELSE IF element.missing \in RequiredProperties THEN "threw"
         ELSE "parsed"

ParsedRule(element) ==
    [Id |-> element.id, DefaultSeverity |-> element.defaultSeverity,
     ProfileSeverities |-> element.profiles]

\* The pack files on disk: the one of the bundled directory, and one extra pack.
BundledPack ==
    << RuleElement("USH0001", "error", EmptyMap),
       RuleElement("USH0002", "error", EmptyMap),
       RuleElement("USH0043", "info", [x \in {"strict_experimental"} |-> "warning"]),
       RuleElement("USH0044", "warning", [x \in {"strict_experimental"} |-> "error"]),
       RuleElement("USH0045", "warning", EmptyMap) >>

ExtraPack == << RuleElement("USH0045", "error", EmptyMap) >>

NoFile == [exists |-> FALSE, readable |-> FALSE, rules |-> << >>]

PackFile(path) ==
    IF path = "extra.json" THEN [exists |-> TRUE, readable |-> TRUE, rules |-> ExtraPack]
    ELSE NoFile

\* The disk as the loader finds it: the PolicyPacks directory beside the
\* executable and the files the extra paths name.
InstalledDisk ==
    [directory |-> TRUE,
     bundled |-> << [exists |-> TRUE, readable |-> TRUE, rules |-> BundledPack] >>,
     files |-> [path \in {"extra.json"} |-> PackFile(path)]]

\* The same with a bundled pack that cannot be opened or parsed.
DamagedDisk ==
    [InstalledDisk EXCEPT
        !.bundled = << [exists |-> TRUE, readable |-> FALSE, rules |-> BundledPack] >>]

Disks == {InstalledDisk, DamagedDisk}

RECURSIVE ExistingPacks(_, _)
ExistingPacks(disk, additionalPacks) ==
    IF additionalPacks = << >> THEN << >>
    ELSE LET path == Head(additionalPacks)
             file == IF path \in DOMAIN disk.files THEN disk.files[path] ELSE NoFile
         IN (IF file.exists THEN << file >> ELSE << >>)
            \o ExistingPacks(disk, Tail(additionalPacks))

EnumeratePolicyFiles(disk, additionalPacks) ==
    (IF disk.directory THEN disk.bundled ELSE << >>) \o ExistingPacks(disk, additionalPacks)

\* builder[rule.Id] = rule on a builder that compares keys with
\* OrdinalIgnoreCase: the catalogue is the set of its values.
SetItemOrdinal(catalogue, rule) ==
    { r \in catalogue : r.Id # rule.Id } \cup {rule}

SetItem(catalogue, rule) ==
    { r \in catalogue : ~EqualsIgnoreCase(r.Id, rule.Id) } \cup {rule}

\* The foreach over one file's rules array inside the try block: an element
\* whose parse throws ends the loop, the rules set before it stay.
RECURSIVE AddRules(_, _)
AddRules(catalogue, elements) ==
    IF elements = << >> THEN catalogue
    ELSE LET outcome == TryParseRule(Head(elements))
         IN IF outcome = "threw" THEN catalogue
            ELSE AddRules(IF outcome = "parsed"
                          THEN SetItem(catalogue, ParsedRule(Head(elements)))
                          ELSE catalogue,
                          Tail(elements))

RECURSIVE LoadFiles(_, _)
LoadFiles(catalogue, files) ==
    IF files = << >> THEN catalogue
    ELSE LoadFiles(IF Head(files).readable THEN AddRules(catalogue, Head(files).rules)
                   ELSE catalogue,
                   Tail(files))

EmptyCatalogue == {}

Load(disk, additionalPacks) ==
    LoadFiles(EmptyCatalogue, EnumeratePolicyFiles(disk, additionalPacks))

\* PolicyRepository.GetRule / TryGetValue on _rules.
HasRule(rules, id) == \E r \in rules : EqualsIgnoreCase(r.Id, id)

GetRule(rules, id) == CHOOSE r \in rules : EqualsIgnoreCase(r.Id, id)

GetSeverity(rules, id, settings) ==
    IF HasRule(rules, id)
    THEN RuleGetSeverity(GetRule(rules, id), settings.Profile, settings.RuleOverrides)
    ELSE "Warning"

ToReportDiagnostic(severity) ==
    CASE severity = "Error" -> "Error"
      [] severity = "Warning" -> "Warn"
      [] severity = "Info" -> "Info"
      [] severity = "Hidden" -> "Hidden"
      [] OTHER -> "Default"

\* The specific diagnostic options: a dictionary on OrdinalIgnoreCase, keyed
\* here by the upper-case form of the ids.
BuildDiagnosticOptions(rules, settings) ==
    [id \in { ToUpperInvariant(r.Id) : r \in rules } |->
        ToReportDiagnostic(GetSeverity(rules, id, settings))]

(***************************************************************************)
(* References.                                                             *)
(***************************************************************************)
ResolveReferences(settings) ==
    {"core"} \cup
    (IF settings.UnityApiSurface = "bundled-stubs" THEN {"Stubs/Generated"}
     ELSE IF settings.UnityApiSurface = "custom-stubs" /\ settings.CustomStubPath # ""
          THEN {settings.CustomStubPath}
          ELSE {})

(***************************************************************************)
(* The analyzers.  One analyzer callback runs the checks of several rules  *)
(* in sequence and reports each finding as it goes; no check is wrapped in *)
(* a try block, so a check that throws ends its callback.                  *)
(***************************************************************************)
\* UshNetworkEventAnalyzer.AnalyzeInvocation: ValidateTargetExistence,
\* ValidateTargetAccessibility, then the nameof advisory.
NetworkEventChecks == << "USH0001", "USH0002", "USH0043" >>

\* UshStructureAnalyzer.AnalyzeNamedType: namespace, then file name.
StructureChecks == << "USH0044", "USH0045" >>

Analyzers == << NetworkEventChecks, StructureChecks >>

RuleIds == {"USH0001", "USH0002", "USH0043", "USH0044", "USH0045"}

DescriptorSeverity(id) == IF id \in {"USH0001", "USH0002"} THEN "Error" ELSE "Warning"

\* What the rules find in a text.  "A" is Wrong.cs of the end-to-end scenarios:
\* a behaviour outside any namespace that sends a custom event, by a string
\* literal, to a method that does not exist.
Findings(text) == IF text = "A" THEN {"USH0001", "USH0043", "USH0044"} ELSE {}

\* The findings one callback reports when the check of rule `fault` throws:
\* those of the checks that ran before it.
RunCallback(checks, text, fault) ==
    { checks[i] : i \in { j \in 1..Len(checks) :
                            /\ checks[j] \in Findings(text)
                            /\ \A k \in 1..j : checks[k] # fault } }

Reported(text, fault) ==
    UNION { RunCallback(Analyzers[i], text, fault) : i \in 1..Len(Analyzers) }

\* The severity a reported diagnostic carries under the compilation's
\* specific diagnostic options.
EffectiveSeverity(options, id) ==
    IF id \in DOMAIN options /\ options[id] # "Default"
    THEN (CASE options[id] = "Error" -> "Error"
            [] options[id] = "Warn" -> "Warning"
            [] options[id] = "Info" -> "Info"
            [] OTHER -> "Hidden")
    ELSE DescriptorSeverity(id)

GetAnalyzerDiagnostics(text, options, fault) ==
    { [id |-> r, severity |-> EffectiveSeverity(options, r)] : r \in Reported(text, fault) }

\* AnalyzeDocumentAsync from the analyzers on: the diagnostics when no
\* exception reaches it, empty when one does.
AnalyzeResult(text, options, fault, propagates) ==
    IF fault # NoFault /\ propagates THEN {}
    ELSE GetAnalyzerDiagnostics(text, options, fault)

\* The rules whose check can throw on a text: a check runs only where its
\* callback runs.  The checks that throw in this model: one in the middle of its callback, one
\* at the end of its callback.
ThrowingChecks == {"USH0002", "USH0045"}

FaultChoices(text) == IF Findings(text) = {} THEN {NoFault} ELSE {NoFault} \cup ThrowingChecks

(***************************************************************************)
(* State.                                                                  *)
(***************************************************************************)
(* The extension's settings: settings.ts.                                  *)
(***************************************************************************)
\* The udonsharpLinter.rules object of the editor's configuration, as the
\* entries Object.entries enumerates.
Entry(key, value) == [key |-> key, value |-> value]

RawRules ==
    { << >>,
      << Entry("USH0043", "info") >>,
      << Entry("ush0043", "off") >>,
      << Entry("Ush0045", "error") >>,
      << Entry("USH0044", "hidden") >>,
      << Entry("ush0043", "off"), Entry("USH0043", "info") >> }

SetEntry(record, key, value) ==
    [k \in DOMAIN record \cup {key} |-> IF k = key THEN value ELSE record[k]]

\* The loop of toRuleOverrides: sanitized[ruleId.toUpperCase()] = severity
\* for the entries with a key and one of the four severities.
RECURSIVE Sanitize(_, _)
Sanitize(sanitized, entries) ==
    IF entries = << >> THEN sanitized
    ELSE LET entry == Head(entries)
         IN Sanitize(IF entry.key # "" /\ entry.value \in {"error", "warn", "info", "off"}
                     THEN SetEntry(sanitized, ToUpperInvariant(entry.key), entry.value)
                     ELSE sanitized,
                     Tail(entries))

toRuleOverrides(overrides) == Sanitize(EmptyMap, overrides)

\* The udonsharpLinter section of the editor's configuration.
Configuration(profile, rules, surface, stubPath, packPaths) ==
    [profile |-> profile, rules |-> rules, unityApiSurface |-> surface,
     customStubPath |-> stubPath, policyPackPaths |-> packPaths]

Configurations ==
    { Configuration(profile, rules, stubs[1], stubs[2], packPaths) :
        profile \in {"latest", "strict_experimental"},
        rules \in RawRules,
        stubs \in { << "bundled-stubs", "" >>, << "bundled-stubs", "/stubs" >>,
                    << "custom-stubs", "/stubs" >> },
        packPaths \in { << >>, << "x.json" >>, << "", "x.json" >>,
                        << "/ws/x.json", "/y.json" >> } }

DefaultConfiguration == Configuration("latest", << >>, "bundled-stubs", "", << >>)

\* resolveToAbsolute with the workspace folder /ws; "" stands for undefined.
resolveToAbsolute(candidate) ==
    CASE candidate = "" -> ""
      [] candidate = "x.json" -> "/ws/x.json"
      [] OTHER -> candidate

\* rawPolicyPaths.map(resolveToAbsolute).filter(Boolean)
RECURSIVE ResolvedPaths(_)
ResolvedPaths(paths) ==
    IF paths = << >> THEN << >>
    ELSE (IF resolveToAbsolute(Head(paths)) = "" THEN << >>
          ELSE << resolveToAbsolute(Head(paths)) >>)
         \o ResolvedPaths(Tail(paths))

readSettings(configuration) ==
    [profile |-> configuration.profile,
     ruleOverrides |-> toRuleOverrides(configuration.rules),
     unityApiSurface |-> configuration.unityApiSurface,
     customStubPath |->
         IF configuration.unityApiSurface = "custom-stubs"
            /\ configuration.customStubPath # ""
         THEN resolveToAbsolute(configuration.customStubPath)
         ELSE "",
     allowRefOut |-> FALSE,
     codeActionsEnabled |-> TRUE,
     telemetry |-> "minimal",
     policyPackPaths |-> ResolvedPaths(configuration.policyPackPaths)]

arraysEqual(left, right) ==
    /\ Len(left) = Len(right)
    /\ \A index \in 1..Len(left) : left[index] = right[index]

recordEqualKeyCount(left, right) ==
    Cardinality(DOMAIN left) = Cardinality(DOMAIN right)

\* left[key] !== right[key] with an absent key reading undefined.
recordEqual(left, right) ==
    /\ Cardinality(DOMAIN left) = Cardinality(DOMAIN right)
    /\ \A key \in DOMAIN left : key \in DOMAIN right /\ left[key] = right[key]

settingsAreEqual(left, right) ==
    /\ left.profile = right.profile
    /\ left.unityApiSurface = right.unityApiSurface
    /\ left.customStubPath = right.customStubPath
    /\ left.allowRefOut = right.allowRefOut
    /\ left.codeActionsEnabled = right.codeActionsEnabled
    /\ left.telemetry = right.telemetry
    /\ arraysEqual(left.policyPackPaths, right.policyPackPaths)
    /\ recordEqual(left.ruleOverrides, right.ruleOverrides)

\* No refresh has run yet.
NoRefresh ==
    [refreshed |-> FALSE, fired |-> FALSE,
     read |-> readSettings(DefaultConfiguration),
     before |-> readSettings(DefaultConfiguration)]

\* new SettingsManager(): currentSettings = readSettings().
NewSettingsManager(configuration) ==
    [configuration |-> configuration,
     currentSettings |-> readSettings(configuration),
     last |-> NoRefresh]

(***************************************************************************)
(* The extension's LanguageClientController: clientController.ts           *)
(***************************************************************************)
MAX_RESTART_ATTEMPTS == 3

\* How many LanguageClient objects and how many restart timers one run creates.
MaxClients == 4
MaxRestarts == 4

ClientIds == 1..MaxClients

\* The asynchronous calls of a run: activate's call of start() and one
\* callback per restart timer, in the order the timers were set.
Activation == 0
CallIds == 0..MaxRestarts
TimerIds == 1..MaxRestarts

\* new LanguageClientController(): the fields; 0 is undefined.
NewController ==
    [client |-> 0, disposed |-> FALSE, restartAttempts |-> 0,
     restartPending |-> FALSE, statusInterval |-> 0]

NoAsyncCall == [pc |-> "idle", client |-> 0, delay |-> 0]

\* What the editor's host holds for the controller: the LanguageClient objects
\* created so far, the setInterval timers, and the asynchronous calls with the
\* await each is suspended at.
NewHost ==
    [clients |-> [k \in ClientIds |-> "none"],
     intervals |-> [k \in ClientIds |-> "none"],
     created |-> 0,
     calls |-> [p \in CallIds |-> NoAsyncCall],
     scheduled |-> 0,
     deactivated |-> FALSE,
     cannotRestartShown |-> FALSE]

(***************************************************************************)
VARIABLES
    projectId,      \* WorkspaceManager._projectId; 0 is null
    documents,      \* WorkspaceManager._documents: uri -> DocumentId
    solution,       \* _workspace.CurrentSolution: references and document texts
    settingsCur,    \* SettingsProvider._settings
    policyRules,    \* PolicyRepository._rules
    tasks,          \* the handler invocations, in arrival order
    ntasks,         \* how many notifications have arrived
    clientOpen,     \* the documents the editor has open
    lastPub,        \* per uri, the last publishDiagnostics notification sent
    configEpoch,    \* how many configuration applies have completed
    call,           \* a call of a function or request handler: arguments, result
    manager,        \* the extension's SettingsManager and the editor configuration
    controller,     \* the extension's LanguageClientController: its fields
    host            \* the clients, timers and asynchronous calls of the controller

vars == << projectId, documents, solution, settingsCur, policyRules, tasks, ntasks,
           clientOpen, lastPub, configEpoch, call, manager, controller, host >>

\* The state of the extension (the client side).
clientVars == << manager, controller, host >>

\* No call is being examined.
NoCall == [fn |-> "none"]

TaskIds == 1..MaxTasks

NoPayload == [section |-> FALSE, valid |-> FALSE, settings |-> Default]

Closed == [open |-> FALSE, text |-> ""]

IdleTask ==
    [kind |-> "none", uri |-> "", text |-> "", payload |-> NoPayload, pc |-> "idle",
     cancelled |-> FALSE, cancelledAt |-> "none",
     document |-> NoDocument, settings |-> Default, options |-> EmptyMap,
     result |-> {}, engine |-> "none", fault |-> NoFault, sent |-> 0,
     existing |-> << >>, pre |-> [u \in Uris |-> Closed]]

NeverPublished == [diags |-> {}, rev |-> 0, wasOpen |-> TRUE, epoch |-> 0]

Running(t) == tasks[t].pc \notin {"idle", "done", "faulted"}

DocumentKinds == {"open", "change", "close"}

\* A handler that has returned or thrown: its locals are gone.
Finished(task, pc) ==
    [IdleTask EXCEPT !.kind = task.kind, !.pc = pc, !.cancelled = task.cancelled,
                     !.sent = task.sent]

(***************************************************************************)
(* WorkspaceManager.                                                       *)
(***************************************************************************)
\* GetDocumentAsync: the handle of the uri's document in the current
\* solution, an immutable snapshot; NoDocument is null.
GetDocument(docs, sol, uri) ==
    IF docs[uri] # NoId /\ docs[uri] \in DOMAIN sol.docs
    THEN [text |-> sol.docs[docs[uri]].text, rev |-> sol.docs[docs[uri]].rev,
          project |-> docs[uri].project]
    ELSE NoDocument

\* OpenOrUpdateDocumentAsync on an initialised workspace: the solution after
\* WithDocumentText or AddDocument and TryApplyChanges.
UpdatedSolution(docs, sol, project, uri, text, rev) ==
    LET id == IF docs[uri] # NoId THEN docs[uri] ELSE [project |-> project, uri |-> uri]
    IN [sol EXCEPT !.docs =
            [d \in DOMAIN sol.docs \cup {id} |->
                IF d = id THEN [text |-> text, rev |-> rev] ELSE sol.docs[d]]]

UpdatedDocuments(docs, project, uri) ==
    IF docs[uri] # NoId THEN docs
    ELSE [docs EXCEPT ![uri] = [project |-> project, uri |-> uri]]

\* RemoveDocument.
RemovedSolution(docs, sol, uri) ==
    IF docs[uri] = NoId THEN sol
    ELSE [sol EXCEPT !.docs = [d \in DOMAIN sol.docs \ {docs[uri]} |-> sol.docs[d]]]

RemovedDocuments(docs, uri) == [docs EXCEPT ![uri] = NoId]

RECURSIVE SeqOf(_)
SeqOf(S) ==
    IF S = {} THEN << >>
    ELSE LET x == CHOOSE y \in S : TRUE IN << x >> \o SeqOf(S \ {x})

\* InitializeAsync with a first loop that skips every document.
ExistingDocumentsSkipped(docs, sol) == << >>

\* InitializeAsync, first loop: the (uri, text) of every mapped document that
\* the current solution still holds.
ExistingDocuments(docs, sol) ==
    SeqOf({ [uri |-> u, text |-> GetDocument(docs, sol, u).text,
             rev |-> GetDocument(docs, sol, u).rev] :
            u \in { v \in Uris : docs[v] # NoId /\ docs[v] \in DOMAIN sol.docs } })

\* The open-document set as a request sees it: uri -> open?, text.
OpenView(docs, sol) ==
    [u \in Uris |->
        IF GetDocument(docs, sol, u) = NoDocument /\ docs[u] = NoId THEN Closed
        ELSE [open |-> TRUE, text |-> GetDocument(docs, sol, u).text]]

EmptyDocs == [d \in {} |-> [text |-> "", rev |-> 0]]

(***************************************************************************)
(* Init: the server after OnInitialize applied the default settings.       *)
(***************************************************************************)
Init ==
    /\ projectId = 1
    /\ documents = [u \in Uris |-> NoId]
    /\ solution = [references |-> ResolveReferences(Default), docs |-> EmptyDocs]
    /\ settingsCur = Default
    /\ policyRules = Load(InstalledDisk, Default.PolicyPackPaths)
    /\ tasks = [t \in TaskIds |-> IdleTask]
    /\ ntasks = 0
    /\ clientOpen = {}
    /\ lastPub = [u \in Uris |-> NeverPublished]
    /\ configEpoch = 0
    /\ call = NoCall
    /\ manager = NewSettingsManager(DefaultConfiguration)
    /\ controller = NewController
    /\ host = NewHost

(***************************************************************************)
(* Notifications arrive.  The editor opens a document it has not open, and *)
(* changes or closes one it has open.                                      *)
(***************************************************************************)
Arrive(task) ==
    /\ ntasks < MaxTasks
    /\ Cardinality({ t \in TaskIds : Running(t) }) < MaxRunning
    /\ ntasks' = ntasks + 1
    /\ tasks' = [tasks EXCEPT ![ntasks + 1] = task]

DidOpen(uri, text) ==
    /\ uri \notin clientOpen
    /\ Arrive([IdleTask EXCEPT !.kind = "open", !.uri = uri, !.text = text, !.pc = "update"])
    /\ clientOpen' = clientOpen \cup {uri}
    /\ UNCHANGED << projectId, documents, solution, settingsCur, policyRules, lastPub,
                    configEpoch >>
    /\ UNCHANGED << call, clientVars >>

DidChange(uri, text) ==
    /\ uri \in clientOpen
    /\ Arrive([IdleTask EXCEPT !.kind = "change", !.uri = uri, !.text = text, !.pc = "update"])
    /\ UNCHANGED << projectId, documents, solution, settingsCur, policyRules, clientOpen,
                    lastPub, configEpoch >>
    /\ UNCHANGED << call, clientVars >>

DidClose(uri) ==
    /\ uri \in clientOpen
    /\ Arrive([IdleTask EXCEPT !.kind = "close", !.uri = uri, !.pc = "close"])
    /\ clientOpen' = clientOpen \ {uri}
    /\ UNCHANGED << projectId, documents, solution, settingsCur, policyRules, lastPub,
                    configEpoch >>
    /\ UNCHANGED << call, clientVars >>

DidChangeConfiguration(payload) ==
    /\ Arrive([IdleTask EXCEPT !.kind = "config", !.payload = payload, !.pc = "extract"])
    /\ UNCHANGED << projectId, documents, solution, settingsCur, policyRules, clientOpen,
                    lastPub, configEpoch >>
    /\ UNCHANGED << call, clientVars >>

\* The request's cancellation token is cancelled while its handler runs.
Cancel(t) ==
    /\ tasks[t].kind \in DocumentKinds
    /\ Running(t)
    /\ ~tasks[t].cancelled
    /\ tasks' = [tasks EXCEPT ![t].cancelled = TRUE, ![t].cancelledAt = tasks[t].pc]
    /\ UNCHANGED << projectId, documents, solution, settingsCur, policyRules, ntasks,
                    clientOpen, lastPub, configEpoch >>
    /\ UNCHANGED << call, clientVars >>

(***************************************************************************)
(* Handle(DidOpen) and Handle(DidChange).                                  *)
(***************************************************************************)
\* await _workspaceManager.OpenOrUpdateDocumentAsync(uri, text, token)
OpenOrUpdateDocument(t) ==
    /\ tasks[t].pc = "update"
    /\ IF projectId = 0
       THEN /\ tasks' = [tasks EXCEPT ![t] = Finished(tasks[t], "faulted")]
            /\ UNCHANGED << documents, solution >>
       ELSE /\ solution' = UpdatedSolution(documents, solution, projectId,
                                           tasks[t].uri, tasks[t].text, t)
            /\ documents' = UpdatedDocuments(documents, projectId, tasks[t].uri)
            /\ tasks' = [tasks EXCEPT ![t].pc = "get"]
    /\ UNCHANGED << projectId, settingsCur, policyRules, ntasks, clientOpen, lastPub,
                    configEpoch >>
    /\ UNCHANGED << call, clientVars >>

\* AnalyzeAndPublishAsync: GetDocumentAsync, the null check, and the read of
\* _settingsProvider.Current for the call of AnalyzeDocumentAsync.
GetDocumentStep(t) ==
    /\ tasks[t].pc = "get"
    /\ LET document == GetDocument(documents, solution, tasks[t].uri)
       IN tasks' = IF document = NoDocument
                   THEN [tasks EXCEPT ![t] = Finished(tasks[t], "done")]
                   ELSE [tasks EXCEPT ![t].pc = "compile", ![t].document = document,
                                      ![t].settings = settingsCur]
    /\ UNCHANGED << projectId, documents, solution, settingsCur, policyRules, ntasks,
                    clientOpen, lastPub, configEpoch >>
    /\ UNCHANGED << call, clientVars >>

\* AnalyzeDocumentAsync: await GetCompilationAsync(token), outside the try
\* block, then BuildDiagnosticOptions over _policyRepository.Rules.
GetCompilation(t) ==
    /\ tasks[t].pc = "compile"
    /\ tasks' = IF tasks[t].cancelled
                THEN [tasks EXCEPT ![t] = [Finished(tasks[t], "faulted") EXCEPT
                                                !.engine = "threw"]]
                ELSE [tasks EXCEPT ![t].pc = "rules",
                                   ![t].options = BuildDiagnosticOptions(policyRules,
                                                                         tasks[t].settings)]
    /\ UNCHANGED << projectId, documents, solution, settingsCur, policyRules, ntasks,
                    clientOpen, lastPub, configEpoch >>
    /\ UNCHANGED << call, clientVars >>

RunAnalyzersOfSession(t) ==
    /\ tasks[t].pc = "rules"
    /\ IF tasks[t].cancelled
       THEN tasks' = [tasks EXCEPT ![t].pc = "publish", ![t].result = {},
                                   ![t].engine = "cancelled"]
       ELSE \E fault \in FaultChoices(tasks[t].document.text), propagates \in BOOLEAN :
               /\ propagates => fault # NoFault
               /\ tasks' = [tasks EXCEPT
                      ![t].pc = "publish",
                      ![t].fault = fault,
                      ![t].engine = IF propagates THEN "failed" ELSE "returned",
                      ![t].result = IF ntasks % 2 = 0 THEN {}
                                   ELSE AnalyzeResult(tasks[t].document.text,
                                                      tasks[t].options, fault,
                                                      propagates)]
    /\ UNCHANGED << projectId, documents, solution, settingsCur, policyRules, ntasks,
                    clientOpen, lastPub, configEpoch >>
    /\ UNCHANGED << call, clientVars >>

\* AnalyzeDocumentAsync: await GetAnalyzerDiagnosticsAsync() inside the try
\* block.  Whether the analyzer driver lets the exception of a throwing check
\* out of GetAnalyzerDiagnosticsAsync is the driver's business: both happen.
RunAnalyzers(t) ==
    /\ tasks[t].pc = "rules"
    /\ IF tasks[t].cancelled
       THEN tasks' = [tasks EXCEPT ![t].pc = "publish", ![t].result = {},
                                   ![t].engine = "cancelled"]
       ELSE \E fault \in FaultChoices(tasks[t].document.text), propagates \in BOOLEAN :
               /\ propagates => fault # NoFault
               /\ tasks' = [tasks EXCEPT
                      ![t].pc = "publish",
                      ![t].fault = fault,
                      ![t].engine = IF propagates THEN "failed" ELSE "returned",
                      ![t].result = AnalyzeResult(tasks[t].document.text, tasks[t].options,
                                                  fault, propagates)]
    /\ UNCHANGED << projectId, documents, solution, settingsCur, policyRules, ntasks,
                    clientOpen, lastPub, configEpoch >>
    /\ UNCHANGED << call, clientVars >>

\* DiagnosticsPublisher.ToLspDiagnostic: the rule id as code, the severity on
\* the wire scale.
ToLspSeverity(severity) ==
    CASE severity = "Error" -> "Error"
      [] severity = "Warning" -> "Warning"
      [] severity = "Info" -> "Information"
      [] severity = "Hidden" -> "Hint"
      [] OTHER -> "Warning"

ToLspDiagnostic(diagnostic) ==
    [code |-> diagnostic.id, severity |-> ToLspSeverity(diagnostic.severity)]

\* DiagnosticsPublisher.PublishAsync: ThrowIfCancellationRequested, then
\* SendNotification.
Publication(uri, diags, rev, docs) ==
    [diags |-> { ToLspDiagnostic(d) : d \in diags }, rev |-> rev,
     wasOpen |-> docs[uri] # NoId, epoch |-> configEpoch]

Publish(t) ==
    /\ tasks[t].pc = "publish"
    /\ IF tasks[t].cancelled
       THEN /\ tasks' = [tasks EXCEPT ![t] = Finished(tasks[t], "faulted")]
            /\ UNCHANGED lastPub
       ELSE /\ lastPub' = [lastPub EXCEPT ![tasks[t].uri] =
                   Publication(tasks[t].uri, tasks[t].result, tasks[t].document.rev,
                               documents)]
            /\ tasks' = [tasks EXCEPT ![t] = [Finished(tasks[t], "done") EXCEPT
                                                !.sent = tasks[t].sent + 1]]
    /\ UNCHANGED << projectId, documents, solution, settingsCur, policyRules, ntasks,
                    clientOpen, configEpoch >>
    /\ UNCHANGED << call, clientVars >>

(***************************************************************************)
(* Handle(DidClose): RemoveDocument, then PublishAsync of the empty list.  *)
(***************************************************************************)
CloseDocument(t) ==
    /\ tasks[t].pc = "close"
    /\ documents' = RemovedDocuments(documents, tasks[t].uri)
    /\ solution' = RemovedSolution(documents, solution, tasks[t].uri)
    /\ IF tasks[t].cancelled
       THEN /\ tasks' = [tasks EXCEPT ![t] = Finished(tasks[t], "faulted")]
            /\ UNCHANGED lastPub
       ELSE /\ lastPub' = [lastPub EXCEPT ![tasks[t].uri] =
                   Publication(tasks[t].uri, {}, lastPub[tasks[t].uri].rev, documents')]
            /\ tasks' = [tasks EXCEPT ![t] = [Finished(tasks[t], "done") EXCEPT
                                                !.sent = tasks[t].sent + 1]]
    /\ UNCHANGED << projectId, settingsCur, policyRules, ntasks, clientOpen, configEpoch >>
    /\ UNCHANGED << call, clientVars >>

(***************************************************************************)
(* Handle(DidChangeConfiguration) and LinterConfigurationService.ApplyAsync.*)
(***************************************************************************)
\* TryExtractSettingsElement, Deserialize, and ApplyAsync's first statement
\* _settingsProvider.Update(settings).
ExtractAndUpdate(t) ==
    /\ tasks[t].pc = "extract"
    /\ IF TryExtractSettingsElement(tasks[t].payload)
       THEN /\ settingsCur' = Deserialize(tasks[t].payload)
            /\ tasks' = [tasks EXCEPT ![t].pc = "load",
                                      ![t].settings = Deserialize(tasks[t].payload)]
       ELSE /\ tasks' = [tasks EXCEPT ![t] = Finished(tasks[t], "done")]
            /\ UNCHANGED settingsCur
    /\ UNCHANGED << projectId, documents, solution, policyRules, ntasks, clientOpen,
                    lastPub, configEpoch >>
    /\ UNCHANGED << call, clientVars >>

\* _policyPackLoader.Load, which enumerates the pack directory outside any
\* try block and so can throw, then _policyRepository.Replace.  What Load
\* returns depends on the disk it finds.
LoadAndReplace(t) ==
    /\ tasks[t].pc = "load"
    /\ \E ok \in BOOLEAN, disk \in Disks :
          IF ok
          THEN /\ policyRules' = Load(disk, tasks[t].settings.PolicyPackPaths)
               /\ tasks' = [tasks EXCEPT ![t].pc = "init"]
          ELSE /\ tasks' = [tasks EXCEPT ![t] = Finished(tasks[t], "faulted")]
               /\ UNCHANGED policyRules
    /\ UNCHANGED << projectId, documents, solution, settingsCur, ntasks, clientOpen,
                    lastPub, configEpoch >>
    /\ UNCHANGED << call, clientVars >>

\* InitializeAsync: ResolveReferences, which enumerates the stub directory
\* outside any try block and so can throw, then the loop that collects the
\* existing documents.
InitializeCollect(t) ==
    /\ tasks[t].pc = "init"
    /\ \E ok \in BOOLEAN :
          tasks' = IF ok
                   THEN [tasks EXCEPT ![t].pc = "reset",
                                      ![t].existing = ExistingDocuments(documents, solution),
                                      ![t].pre = OpenView(documents, solution)]
                   ELSE [tasks EXCEPT ![t] = Finished(tasks[t], "faulted")]
    /\ UNCHANGED << projectId, documents, solution, settingsCur, policyRules, ntasks,
                    clientOpen, lastPub, configEpoch >>
    /\ UNCHANGED << call, clientVars >>

\* InitializeAsync: ClearSolution, _documents.Clear, AddProject, _projectId.
InitializeReset(t) ==
    /\ tasks[t].pc = "reset"
    /\ solution' = [references |-> ResolveReferences(tasks[t].settings), docs |-> EmptyDocs]
    /\ documents' = [u \in Uris |-> NoId]
    /\ projectId' = projectId + 1
    /\ tasks' = [tasks EXCEPT ![t].pc = "readd"]
    /\ UNCHANGED << settingsCur, policyRules, ntasks, clientOpen, lastPub, configEpoch >>
    /\ UNCHANGED << call, clientVars >>

\* InitializeAsync: the loop that re-adds the collected documents, one
\* OpenOrUpdateDocumentAsync per step, and the return of ApplyAsync.
InitializeReAdd(t) ==
    /\ tasks[t].pc = "readd"
    /\ IF tasks[t].existing = << >>
       THEN /\ tasks' = [tasks EXCEPT ![t] = Finished(tasks[t], "done")]
            /\ configEpoch' = configEpoch + 1
            /\ UNCHANGED << documents, solution >>
       ELSE LET doc == Head(tasks[t].existing)
            IN /\ solution' = UpdatedSolution(documents, solution, projectId,
                                              doc.uri, doc.text, doc.rev)
               /\ documents' = UpdatedDocuments(documents, projectId, doc.uri)
               /\ tasks' = [tasks EXCEPT ![t].existing = Tail(tasks[t].existing)]
               /\ UNCHANGED configEpoch
    /\ UNCHANGED << projectId, settingsCur, policyRules, ntasks, clientOpen, lastPub >>
    /\ UNCHANGED << call, clientVars >>

(***************************************************************************)
(* Specifications.                                                         *)
(***************************************************************************)
Step(t) ==
    \/ Cancel(t)
    \/ OpenOrUpdateDocument(t)
    \/ GetDocumentStep(t)
    \/ GetCompilation(t)
    \/ RunAnalyzers(t)
    \/ Publish(t)
    \/ CloseDocument(t)
    \/ ExtractAndUpdate(t)
    \/ LoadAndReplace(t)
    \/ InitializeCollect(t)
    \/ InitializeReset(t)
    \/ InitializeReAdd(t)

Notification ==
    \/ \E uri \in Uris, text \in Texts : DidOpen(uri, text)
    \/ \E uri \in Uris, text \in Texts : DidChange(uri, text)
    \/ \E uri \in Uris : DidClose(uri)
    \/ \E payload \in Payloads : DidChangeConfiguration(payload)

Next == Notification \/ \E t \in TaskIds : Step(t)

Spec == Init /\ [][Next]_vars

\* The handlers run one at a time: a notification is dispatched only when no
\* handler is running.
Quiescent == \A t \in TaskIds : ~Running(t)

NextSeq == (Quiescent /\ Notification) \/ \E t \in TaskIds : Step(t)

SpecSeq == Init /\ [][NextSeq]_vars

(***************************************************************************)
(* Properties.                                                             *)
(***************************************************************************)
AnalysisKinds == {"open", "change"}

\* C1: a publishDiagnostics notification with a non-empty list is never sent
\* for a uri that is not in the workspace's open-document set when it is sent.
C1_NoDiagnosticsForClosedDocument ==
    \A u \in Uris : lastPub[u].diags # {} => lastPub[u].wasOpen

\* C2: every didClose produces exactly one publishDiagnostics notification:
\* a close handler that has finished has sent one, and a running one none yet.
C2_CloseSendsOnePublish ==
    \A t \in TaskIds :
        tasks[t].kind = "close" =>
            IF Running(t) THEN tasks[t].sent = 0 ELSE tasks[t].sent = 1

\* C3: for each uri the publishes follow the arrival order of the updates: a
\* publish computed from an earlier text never follows one computed from a
\* later text.
C3_PublishesInArrivalOrder ==
    [][\A u \in Uris : lastPub'[u].rev >= lastPub[u].rev]_vars

\* C4: at no time are two un-cancelled analyses of the same uri running.
C4_OneLiveAnalysisPerUri ==
    \A t1, t2 \in TaskIds :
        ( /\ t1 # t2
          /\ tasks[t1].kind \in AnalysisKinds /\ tasks[t2].kind \in AnalysisKinds
          /\ tasks[t1].pc \in {"compile", "rules", "publish"}
          /\ tasks[t2].pc \in {"compile", "rules", "publish"}
          /\ tasks[t1].uri = tasks[t2].uri )
        => (tasks[t1].cancelled \/ tasks[t2].cancelled)

\* C5: a run whose token is cancelled sends no publishDiagnostics, and the
\* rule engine of a run cancelled before it returned returns the empty set (it
\* does not throw).
C5_CancelledRunReturnsEmptyAndSendsNothing ==
    \A t \in TaskIds :
        (tasks[t].kind \in AnalysisKinds /\ tasks[t].cancelled) =>
            /\ tasks[t].sent = 0
            /\ tasks[t].engine # "threw"
            /\ (tasks[t].pc = "publish" /\ tasks[t].cancelledAt # "publish")
                   => (tasks[t].engine = "cancelled" /\ tasks[t].result = {})

\* C6: when the check of one rule throws, the engine still returns every
\* diagnostic of the other rules, and only the faulty rule contributes nothing.
C6_FaultyRuleSilencesOnlyItself ==
    \A t \in TaskIds :
        (tasks[t].pc = "publish" /\ tasks[t].engine \in {"returned", "failed"}) =>
            tasks[t].result =
                { [id |-> r, severity |-> EffectiveSeverity(tasks[t].options, r)] :
                  r \in Findings(tasks[t].document.text) \ {tasks[t].fault} }

\* C7: at every point the settings snapshot, the rule catalogue and the
\* workspace references belong to one configuration.
C7_ConfigurationIsOneSnapshot ==
    /\ \E disk \in Disks : policyRules = Load(disk, settingsCur.PolicyPackPaths)
    /\ solution.references = ResolveReferences(settingsCur)

\* C8: once the handlers have finished, the diagnostics last published for
\* each open document were published after the last configuration change
\* that was applied.
C8_ConfigurationChangeRepublishes ==
    Quiescent =>
        \A u \in Uris :
            (documents[u] # NoId /\ lastPub[u].rev # 0) => lastPub[u].epoch = configEpoch

\* C9: when InitializeAsync has re-added the documents, the open-document set
\* and every text are those from before it, every open uri has a handle, and
\* the references are those of the settings it was given.
C9_InitializePreservesDocuments ==
    \A t \in TaskIds :
        (tasks[t].kind = "config" /\ tasks[t].pc = "readd" /\ tasks[t].existing = << >>) =>
            /\ OpenView(documents, solution) = tasks[t].pre
            /\ \A u \in Uris :
                   tasks[t].pre[u].open => GetDocument(documents, solution, u) # NoDocument
            /\ solution.references = ResolveReferences(tasks[t].settings)

\* C9, the case: InitializeAsync has rebuilt a project in which two documents
\* with different texts were open.
C9_Witness ==
    \E t \in TaskIds :
        /\ tasks[t].kind = "config" /\ tasks[t].pc = "readd" /\ tasks[t].existing = << >>
        /\ tasks[t].pre["a.cs"] = [open |-> TRUE, text |-> "A"]
        /\ tasks[t].pre["b.cs"] = [open |-> TRUE, text |-> ""]
        /\ tasks[t].settings = StrictSettings

\* C10: the steps of open/update/remove never fall between the steps of an
\* initialise: from the collection of the documents to the end of the rebuild
\* nothing else has altered the document set.
C10_InitializeIsNotInterleaved ==
    \A t \in TaskIds :
        tasks[t].kind = "config" =>
            /\ tasks[t].pc = "reset" => OpenView(documents, solution) = tasks[t].pre
            /\ (tasks[t].pc = "readd" /\ tasks[t].existing = << >>)
                   => OpenView(documents, solution) = tasks[t].pre

\* A run that is about to send its publishDiagnostics notification.
Publishing(t) ==
    /\ tasks[t].kind \in AnalysisKinds
    /\ tasks[t].pc = "publish"
    /\ ~tasks[t].cancelled

\* C11: the severity of every diagnostic that is published equals the severity
\* the policy repository resolves for its rule id under the settings snapshot
\* of the analysis.
C11_PublishedSeverityIsRepositorySeverity ==
    \A t \in TaskIds :
        Publishing(t) =>
            \A d \in tasks[t].result :
                ToLspDiagnostic(d).severity =
                    ToLspSeverity(GetSeverity(policyRules, d.id, tasks[t].settings))

\* C12: the rule id of every diagnostic that is published is present in the
\* catalogue of the policy repository, whatever reload came before.
C12_PublishedIdIsInCatalogue ==
    \A t \in TaskIds :
        Publishing(t) => \A d \in tasks[t].result : HasRule(policyRules, d.id)

\* C13: while the settings hold ruleOverrides["USH0043"] = "off", no USH0043
\* diagnostic is published.
C13_OffEliminatesUSH0043 ==
    \A t \in TaskIds :
        ( /\ Publishing(t)
          /\ tasks[t].settings = settingsCur
          /\ "USH0043" \in DOMAIN settingsCur.RuleOverrides
          /\ settingsCur.RuleOverrides["USH0043"] = "off" )
        => \A d \in tasks[t].result : ToLspDiagnostic(d).code # "USH0043"

serverVars == << projectId, documents, solution, settingsCur, policyRules, tasks,
                 ntasks, clientOpen, lastPub, configEpoch >>

\* The server as OnInitialize leaves it: the settings of the
\* initializationOptions applied, the catalogue loaded from the disk.
ServerStarted(settings, disk) ==
    /\ projectId = NoId
    /\ documents = EmptyDocs
    /\ solution = EmptyDocs
    /\ settingsCur = settings
    /\ policyRules = Load(disk, settings.PolicyPackPaths)
    /\ tasks = [t \in TaskIds |-> IdleTask]
    /\ ntasks = 0
    /\ clientOpen = [u \in Uris |-> Closed]
    /\ lastPub = [u \in Uris |-> NeverPublished]
    /\ configEpoch = 0

Returned(fn) == call.fn = fn /\ call.returned

\* PolicyRepository.GetSeverity(ruleId, settings) on a loaded catalogue.
OverrideMaps ==
    { EmptyMap,
      [x \in {"USH0043"} |-> "off"],
      [x \in {"USH0044"} |-> "Error"],
      [x \in {"ush0043"} |-> "off"],
      [x \in {"USH0043", "USH0045"} |-> IF x = "USH0043" THEN "info" ELSE "hidden"] }

Profiles == {"latest", "strict_experimental", "Strict_Experimental"}

QueriedIds == RuleIds \cup {"ush0043", "USH9999"}

GetSeverityCalls ==
    { [fn |-> "GetSeverity", returned |-> FALSE, result |-> "",
       rules |-> Load(InstalledDisk, paths), id |-> id,
       settings |-> [Default EXCEPT !.Profile = profile, !.RuleOverrides = overrides]] :
      paths \in {<< >>, << "extra.json" >>}, id \in QueriedIds,
      profile \in Profiles, overrides \in OverrideMaps }

CallGetSeverity ==
    /\ call.fn = "GetSeverity"
    /\ ~call.returned
    /\ call' = [call EXCEPT !.returned = TRUE,
                            !.result = GetSeverity(call.rules, call.id, call.settings)]
    /\ UNCHANGED << serverVars, clientVars >>

ElementChoices ==
    { RuleElement("USH0044", "warning", EmptyMap),
      RuleElement("ush0044", "error", EmptyMap),
      RuleElement("USH0045", "info", EmptyMap),
      [RuleElement("USH0045", "error", EmptyMap) EXCEPT !.missing = "title"],
      [RuleElement("", "error", EmptyMap) EXCEPT !.missing = "id"] }

RuleArrays ==
    UNION { [1..n -> ElementChoices] : n \in 0..MaxElements }

OtherPack == << RuleElement("USH0044", "info", EmptyMap) >>

UnreadablePack == [exists |-> TRUE, readable |-> FALSE, rules |-> OtherPack]

LoadDisks ==
    { [directory |-> TRUE,
       bundled |-> << [exists |-> TRUE, readable |-> TRUE, rules |-> bundled] >>,
       files |-> [path \in {"x.json", "y.json"} |->
                     IF path = "x.json" THEN x
                     ELSE [exists |-> TRUE, readable |-> TRUE, rules |-> OtherPack]]] :
      bundled \in RuleArrays,
      x \in {UnreadablePack} \cup
            { [exists |-> TRUE, readable |-> TRUE, rules |-> rules] : rules \in RuleArrays } }

PackPaths ==
    { << >>, << "x.json" >>, << "x.json", "y.json" >>, << "y.json", "x.json" >>,
      << "absent.json", "x.json" >> }

LoadCalls ==
    { [fn |-> "Load", returned |-> FALSE, result |-> {},
       disk |-> disk, additionalPacks |-> paths] :
      disk \in LoadDisks, paths \in PackPaths }

CallLoad ==
    /\ call.fn = "Load"
    /\ ~call.returned
    /\ call' = [call EXCEPT !.returned = TRUE,
                            !.result = Load(call.disk, call.additionalPacks)]
    /\ UNCHANGED << serverVars, clientVars >>

C16_MalformedEntrySkippedAlone ==
    Returned("Load") =>
        LET read == { call.disk.bundled[i] : i \in DOMAIN call.disk.bundled } \cup
                    { call.disk.files[call.additionalPacks[i]] :
                        i \in { j \in DOMAIN call.additionalPacks :
                                  call.additionalPacks[j] \in DOMAIN call.disk.files } }
        IN \A file \in read :
               (file.exists /\ file.readable) =>
                   \A i \in DOMAIN file.rules :
                       file.rules[i].missing = "none"
                           => HasRule(call.result, file.rules[i].id)

\* The syntax node callbacks of UshRuntimeRestrictionAnalyzer and
\* UshApiExposureAnalyzer.  A node is its kind, whether its enclosing type is
\* an UdonSharp script (IsUdonSharpBehaviour), and what the callback looks at:
\* for a method declaration whether it is named as a player event and
\* conforms to the event's signature, for an invocation what is invoked.
Node(kind, script, detail) == [kind |-> kind, script |-> script, detail |-> detail]

NodeDetails ==
    [x \in {"MethodDeclaration", "InvocationExpression", "IsExpression", "AsExpression",
            "TryStatement", "ThrowStatement", "ThrowExpression"} |->
        CASE x = "MethodDeclaration" -> {"Start", "OnPlayerJoined()", "OnPlayerJoined(int)"}
          [] x = "InvocationExpression" ->
                {"Mathf.Abs", "System.IO.File.ReadAllText",
                 "Object.Instantiate(component)", "Instantiate(new Widget())"}
          [] OTHER -> {""}]

NodeChoices ==
    { n \in [kind : DOMAIN NodeDetails, script : BOOLEAN,
             detail : UNION { NodeDetails[k] : k \in DOMAIN NodeDetails }] :
        n.detail \in NodeDetails[n.kind] }

\* UshRuntimeRestrictionAnalyzer.AnalyzeMethod: USH0016.
AnalyzeMethod(node) ==
    IF ~node.script THEN {}
    ELSE IF node.detail = "OnPlayerJoined(int)" THEN {"USH0016"}
         ELSE {}

\* UshRuntimeRestrictionAnalyzer.AnalyzeInvocation: USH0017.  A resolved
\* UnityEngine.Object.Instantiate counts wherever it stands, an unresolved
\* bare Instantiate only inside an UdonSharp script.
AnalyzeInstantiate(node) ==
    CASE node.detail = "Object.Instantiate(component)" -> {"USH0017"}
      [] node.detail = "Instantiate(new Widget())" ->
            IF node.script THEN {"USH0017"} ELSE {}
      [] OTHER -> {}

AnalyzeIsExpression(node) == {"USH0018"}

AnalyzeAsExpression(node) == {"USH0019"}

AnalyzeTryStatement(node) == {"USH0020"}

AnalyzeThrowStatement(node) == {"USH0021"}

AnalyzeThrowExpression(node) == {"USH0021"}

\* UshApiExposureAnalyzer.AnalyzeInvocation: USH0013.
AnalyzeForbiddenInvocation(node) ==
    IF node.detail = "System.IO.File.ReadAllText" THEN {"USH0013"} ELSE {}

\* RegisterSyntaxNodeAction: the callbacks subscribed to the node's kind.
SyntaxNodeActions(node) ==
    CASE node.kind = "MethodDeclaration" -> AnalyzeMethod(node)
      [] node.kind = "InvocationExpression" ->
            AnalyzeInstantiate(node) \cup AnalyzeForbiddenInvocation(node)
      [] node.kind = "IsExpression" -> AnalyzeIsExpression(node)
      [] node.kind = "AsExpression" -> AnalyzeAsExpression(node)
      [] node.kind = "TryStatement" -> AnalyzeTryStatement(node)
      [] node.kind = "ThrowStatement" -> AnalyzeThrowStatement(node)
      [] node.kind = "ThrowExpression" -> AnalyzeThrowExpression(node)

\* The ids reported on a document: every node is handed to its callbacks.
AnalyzeNodes(document) ==
    UNION { SyntaxNodeActions(document[i]) : i \in DOMAIN document }

NodeDocuments == UNION { [1..n -> NodeChoices] : n \in 1..MaxNodes }

AnalyzeNodesCalls ==
    { [fn |-> "AnalyzeNodes", returned |-> FALSE, result |-> {}, document |-> document] :
      document \in NodeDocuments }

CallAnalyzeNodes ==
    /\ call.fn = "AnalyzeNodes"
    /\ ~call.returned
    /\ call' = [call EXCEPT !.returned = TRUE, !.result = AnalyzeNodes(call.document)]
    /\ UNCHANGED << serverVars, clientVars >>

\* C17: on a document in which no position has an UdonSharp script as its
\* enclosing type, no rule that applies to UdonSharp scripts only (every rule
\* but the structural ones) reports a diagnostic.
C17_NoScriptRuleOnPlainDocument ==
    (Returned("AnalyzeNodes") /\ \A i \in DOMAIN call.document : ~call.document[i].script)
        => call.result \cap {"USH0013", "USH0016", "USH0017", "USH0018", "USH0019",
                             "USH0020", "USH0021"} = {}

\* UshNetworkEventAnalyzer.AnalyzeInvocation on one invocation inside a type
\* declaration.  identified: TryIdentifyEventInvocation recognises a
\* SendCustomEvent call; argument: the event argument is a string literal that
\* names a method, the literal "", a constant that is no literal, or a
\* variable; resolved: the semantic model
\* yields a target behaviour that is an UdonSharpBehaviour; receiver: the call
\* is made on this, on an identifier whose type is declared in the document,
\* on an identifier whose type is not declared in the document, or on another
\* expression; enclosing / target: the methods of the event's name that the
\* enclosing type / the receiver's type declares.
Invocations ==
    [identified : BOOLEAN,
     argument : {"literal", "emptyLiteral", "constant", "variable"},
     resolved : BOOLEAN,
     receiver : {"this", "declared", "undeclared", "expression"},
     enclosing : {"none", "private", "public"},
     target : {"none", "private", "public"}]

\* ValidateTargetExistence and ValidateTargetAccessibility, and their
\* counterparts on FindCandidateMethodsBySyntax.
ValidateTarget(candidates) ==
    CASE candidates = "none" -> {"USH0001"}
      [] candidates = "private" -> {"USH0002"}
      [] OTHER -> {}

\* TryAnalyzeEventsSyntaxOnly: the target type is the declaration of the
\* receiver's type when the document has one, and else the type declaration
\* that encloses the invocation (targetType ??= FirstAncestorOrSelf).
SyntaxOnlyTargetType(inv) ==
    IF inv.receiver = "declared" THEN "receiver" ELSE "enclosing"

\* The value TryAnalyzeEventsSyntaxOnly returns: false for an empty method
\* name (a type declaration always encloses the invocations of the model).
SyntaxOnlyAnalysed(inv) == inv.argument # "emptyLiteral"

\* What TryAnalyzeEventsSyntaxOnly reports.
TryAnalyzeEventsSyntaxOnly(inv) ==
    IF ~SyntaxOnlyAnalysed(inv) THEN {}
    ELSE ValidateTarget(IF SyntaxOnlyTargetType(inv) = "receiver" THEN inv.target
                        ELSE inv.enclosing)

IsStringLiteral(inv) == inv.argument \in {"literal", "emptyLiteral"}

\* GetBehaviourMethods(targetBehaviour, targetName): no method has the name "".
SemanticCandidates(inv) ==
    IF inv.argument = "emptyLiteral" THEN "none"
    ELSE IF inv.receiver = "this" THEN inv.enclosing ELSE inv.target

OnSyntaxOnlyPath(inv) ==
    inv.identified /\ inv.argument # "variable" /\ ~inv.resolved

AnalyzeInvocation(inv) ==
    IF ~inv.identified THEN {}
    ELSE IF inv.argument = "variable" THEN {}
    ELSE IF ~inv.resolved
         THEN TryAnalyzeEventsSyntaxOnly(inv)
              \cup (IF SyntaxOnlyAnalysed(inv) /\ IsStringLiteral(inv)
                    THEN {"USH0043"} ELSE {})
         ELSE ValidateTarget(SemanticCandidates(inv))
              \cup (IF IsStringLiteral(inv) THEN {"USH0043"} ELSE {})

AnalyzeInvocationCalls ==
    { [fn |-> "AnalyzeInvocation", returned |-> FALSE, result |-> {}, invocation |-> inv] :
      inv \in Invocations }

CallAnalyzeInvocation ==
    /\ call.fn = "AnalyzeInvocation"
    /\ ~call.returned
    /\ call' = [call EXCEPT !.returned = TRUE,
                            !.result = AnalyzeInvocation(call.invocation)]
    /\ UNCHANGED << serverVars, clientVars >>

\* C18: on the syntax-only path, a call on a receiver whose type has no
\* declaration that the fallback can locate gets no USH0001.
C18_NoTargetMissingWithoutTargetType ==
    ( /\ Returned("AnalyzeInvocation")
      /\ OnSyntaxOnlyPath(call.invocation)
      /\ call.invocation.receiver \in {"undeclared", "expression"} )
    => "USH0001" \notin call.result

\* The custom requests.  The server answers a method that one of the handlers
\* registered in Program carries in its Method attribute, and answers any
\* other method with the JSON-RPC error MethodNotFound.
RegisteredMethods ==
    {"udonsharp/rules/list", "udonsharp/rules/documentation", "udonsharp/server/status"}

MethodNotFound == -32601

ServerVersion == "1.0.0.0"

NoStatus ==
    [profile |-> "", disabledRuleCount |-> 0, totalRuleCount |-> 0, serverVersion |-> ""]

\* ServerStatusHandler.Handle.
ServerStatus(rules, settings) ==
    [profile |-> settings.Profile,
     disabledRuleCount |->
         Cardinality({ rule \in rules : GetSeverity(rules, rule.Id, settings) = "Hidden" }),
     totalRuleCount |-> Cardinality(rules),
     serverVersion |-> ServerVersion]

\* RuleListHandler.Handle: one entry per rule of the catalogue, ordered by id.
RuleDescriptorDto(rule, settings) ==
    [id |-> rule.Id,
     defaultSeverity |->
         ToLspSeverity(RuleGetSeverity(rule, settings.Profile, settings.RuleOverrides)),
     profileSeverity |->
         [k \in DOMAIN rule.ProfileSeverities |->
             ToLspSeverity(RuleGetSeverity(rule, k, settings.RuleOverrides))]]

\* OrderBy(rule => rule.Id) over the ids of the packs on the disks.
SortedIds == << "USH0001", "USH0002", "USH0043", "USH0044", "USH0045" >>

RECURSIVE OrderById(_, _)
OrderById(dtos, ids) ==
    IF ids = << >> THEN << >>
    ELSE SeqOf({ d \in dtos : d.id = Head(ids) }) \o OrderById(dtos, Tail(ids))

RuleList(rules, settings) ==
    OrderById({ RuleDescriptorDto(rule, settings) : rule \in rules }, SortedIds)

HandleRequest(method, rules, settings) ==
    CASE method \notin RegisteredMethods -> [error |-> MethodNotFound, response |-> NoStatus]
      [] method = "udonsharp/server/status" ->
            [error |-> 0, response |-> ServerStatus(rules, settings)]
      [] method = "udonsharp/rules/list" ->
            [error |-> 0, response |-> RuleList(rules, settings)]

\* The two names the client knows for the status request.
StatusMethods == {"udonsharp/server/status", "udonsharp/status"}

RequestMethods == StatusMethods \cup {"udonsharp/rules/list"}

RequestCalls ==
    { [fn |-> "Request", returned |-> FALSE,
       result |-> [error |-> 0, response |-> NoStatus], method |-> method] :
      method \in RequestMethods }

CallRequest ==
    /\ call.fn = "Request"
    /\ ~call.returned
    /\ call' = [call EXCEPT !.returned = TRUE,
                            !.result = HandleRequest(call.method, policyRules, settingsCur)]
    /\ UNCHANGED << serverVars, clientVars >>

\* C20: a request udonsharp/status is answered as udonsharp/server/status is
\* in the same server state: with the status payload, not with an error.
C20_LegacyStatusResolvesIdentically ==
    (Returned("Request") /\ call.method = "udonsharp/status")
        => call.result = HandleRequest("udonsharp/server/status", policyRules, settingsCur)

\* C21: the defaultSeverity of every entry of udonsharp/rules/list is the
\* default severity of the rule on the wire scale, whatever the profile and
\* the rule overrides of the settings are.
C21_ListedDefaultSeverityIsRuleDefault ==
    (Returned("Request") /\ call.method = "udonsharp/rules/list") =>
        \A i \in DOMAIN call.result.response :
            call.result.response[i].defaultSeverity =
                ToLspSeverity(ToSeverity(
                    GetRule(policyRules, call.result.response[i].id).DefaultSeverity))

\* C25: for an identified event call whose method-name argument is a bare
\* string literal, USH0043 is reported, whether or not USH0001 is, on the
\* semantic path and on the syntax-only path.
C25_LiteralAlwaysGetsUSH0043 ==
    ( /\ Returned("AnalyzeInvocation")
      /\ call.invocation.identified
      /\ IsStringLiteral(call.invocation) )
    => "USH0043" \in call.result

\* The payload check of a network event call with one payload argument and
\* one candidate method of one parameter.  parameter is the parameter's type
\* as the declaration writes it; an argument is the type of the expression
\* and the name ClassifyArgumentTypeName gives it ("" where it gives none).
ParameterSpellings ==
    {"int", "Int32", "System.Int32", "global::System.Int32", "long", "System.Int64",
     "short", "System.Int16", "char", "System.Char", "string", "String", "System.String"}

Argument(type, classified) == [type |-> type, classified |-> classified]

PayloadArguments ==
    { Argument("int", "int"),              \* 1
      Argument("int", ""),                 \* a local of type int
      Argument("long", "long"),            \* 1L
      Argument("short", "short"),          \* (short)1
      Argument("short", "System.Int16"),   \* (System.Int16)1
      Argument("char", "char"),            \* 'a'
      Argument("string", "string"),        \* "a"
      Argument("null", "null") }           \* null

\* The local function Normalize of TypeNamesCompatibleNormalized.
Normalize(text) ==
    LET trimmed == IF text = "global::System.Int32" THEN "System.Int32" ELSE text
    IN CASE trimmed = "System.Int32" -> "int"
         [] trimmed = "System.Int64" -> "long"
         [] trimmed = "System.UInt32" -> "uint"
         [] trimmed = "System.UInt64" -> "ulong"
         [] trimmed = "System.Single" -> "float"
         [] trimmed = "System.Double" -> "double"
         [] trimmed = "System.Decimal" -> "decimal"
         [] trimmed = "System.String" -> "string"
         [] OTHER -> trimmed

IsNumericAlias(value) ==
    value \in {"sbyte", "byte", "short", "ushort", "int", "uint", "long", "ulong",
               "float", "double", "decimal"}

TypeNamesCompatibleNormalized(parameterType, argumentType) ==
    LET normalizedParameter == Normalize(parameterType)
        normalizedArgument == Normalize(argumentType)
    IN \/ normalizedArgument = "null"
       \/ IsNumericAlias(normalizedParameter) /\ IsNumericAlias(normalizedArgument)
       \/ normalizedParameter = normalizedArgument

\* The USH0005 branch of TryAnalyzeEventsSyntaxOnly.
PayloadMatchesTypesSyntaxOnly(parameter, argument) ==
    argument.classified = "" \/ TypeNamesCompatibleNormalized(parameter, argument.classified)

ValidatePayloadSyntaxOnly(parameter, argument) ==
    IF PayloadMatchesTypesSyntaxOnly(parameter, argument) THEN {}
    ELSE IF argument.classified = "" THEN {}
         ELSE IF ~TypeNamesCompatibleNormalized(parameter, argument.classified)
              THEN {"USH0005"}
              ELSE {}

\* The type symbol the compiler binds a spelling to.
TypeSymbol(spelling) ==
    CASE spelling \in {"int", "Int32", "System.Int32", "global::System.Int32"} -> "int"
      [] spelling \in {"long", "System.Int64"} -> "long"
      [] spelling \in {"short", "System.Int16"} -> "short"
      [] spelling \in {"char", "System.Char"} -> "char"
      [] spelling \in {"string", "String", "System.String"} -> "string"
      [] OTHER -> spelling

\* SemanticModel.ClassifyConversion: IsIdentity or IsImplicit.
ImplicitConversions ==
    { << "short", "int" >>, << "short", "long" >>, << "int", "long" >>,
      << "char", "int" >>, << "char", "long" >>, << "null", "string" >> }

ClassifyConversion(argument, parameterType) ==
    \/ argument.type = parameterType
    \/ << argument.type, parameterType >> \in ImplicitConversions

\* ValidateNetworkParameterTypes.
ValidateNetworkParameterTypes(parameter, argument) ==
    IF ClassifyConversion(argument, TypeSymbol(parameter)) THEN {} ELSE {"USH0005"}

ValidatePayloadCalls ==
    { [fn |-> "ValidatePayload", returned |-> FALSE, result |-> {},
       semantic |-> semantic, parameter |-> parameter, argument |-> argument] :
      semantic \in BOOLEAN, parameter \in ParameterSpellings,
      argument \in PayloadArguments }

CallValidatePayload ==
    /\ call.fn = "ValidatePayload"
    /\ ~call.returned
    /\ call' = [call EXCEPT
                   !.returned = TRUE,
                   !.result = IF call.semantic
                              THEN ValidateNetworkParameterTypes(call.parameter, call.argument)
                              ELSE ValidatePayloadSyntaxOnly(call.parameter, call.argument)]
    /\ UNCHANGED << serverVars, clientVars >>

\* C23: when the payload argument has the very type the parameter's spelling
\* denotes (int against int, Int32 or System.Int32, and so for the other
\* primitives), USH0005 is not reported, on either path.
C23_NoPayloadMismatchUpToAliasing ==
    (Returned("ValidatePayload") /\ call.argument.type = TypeSymbol(call.parameter))
        => "USH0005" \notin call.result

(***************************************************************************)
(* The two paths of the event analyzer over one source: the target type,   *)
(* its base type and every method named as the event are declared in the   *)
(* analysed file.                                                          *)
(***************************************************************************)
\* How many methods of the event's name the file declares.
MaxCandidates == 2

\* A method declaration of the event's name: in the target type or in its
\* base type, with its modifiers, attribute and parameter types as written.
MethodDeclarations ==
    [declaredIn : {"target", "base"}, isPublic : BOOLEAN,
     hasNetworkCallable : BOOLEAN,
     parameters : {<< >>, << "int" >>, << "System.Int16" >>}]

DeclarationLists ==
    UNION { [1..n -> MethodDeclarations] : n \in 0..MaxCandidates }

\* The payload arguments of the call (SendCustomEvent takes none).
EventPayloads == {<< >>, << Argument("short", "short") >>, << Argument("string", "string") >>}

DeclaredIn(methods, where) == SelectSeq(methods, LAMBDA m : m.declaredIn = where)

\* FindCandidateMethodsBySyntax: the members of the type declaration.
FindCandidateMethodsBySyntax(methods) == DeclaredIn(methods, "target")

\* GetBehaviourMethods: the members of the type, then of its base types.
GetBehaviourMethods(methods) ==
    DeclaredIn(methods, "target") \o DeclaredIn(methods, "base")

MatchingParameterCount(candidates, payload) ==
    SelectSeq(candidates, LAMBDA m : Len(m.parameters) = Len(payload))

\* TryAnalyzeEventsSyntaxOnly from the candidates on: USH0001, USH0002,
\* USH0004 and USH0005.
SyntaxOnlyRules(methods, isNetworkEvent, payload) ==
    LET candidates == FindCandidateMethodsBySyntax(methods)
        matching == MatchingParameterCount(candidates, payload)
        anyCompatible ==
            \E i \in 1..Len(matching) :
                PayloadMatchesTypesSyntaxOnly(matching[i].parameters[1], payload[1])
    IN (IF Len(candidates) = 0 THEN {"USH0001"}
        ELSE IF ~\E i \in 1..Len(candidates) : candidates[i].isPublic
             THEN {"USH0002"} ELSE {})
       \cup
       (IF isNetworkEvent /\ Len(payload) > 0
           /\ ~\E i \in 1..Len(candidates) : candidates[i].hasNetworkCallable
        THEN {"USH0004"} ELSE {})
       \cup
       (IF isNetworkEvent /\ Len(payload) > 0
        THEN IF Len(matching) = 0 THEN {"USH0005"}
             ELSE IF anyCompatible THEN {}
                  ELSE ValidatePayloadSyntaxOnly(matching[1].parameters[1], payload[1])
        ELSE {})

ValidateTargetExistence(candidateMethods) ==
    IF Len(candidateMethods) = 0 THEN {"USH0001"} ELSE {}

ValidateTargetAccessibility(candidateMethods) ==
    IF \E i \in 1..Len(candidateMethods) : ~candidateMethods[i].isPublic
    THEN {"USH0002"} ELSE {}

ValidateNetworkCallableAttribute(candidateMethods, payload) ==
    IF Len(payload) = 0 THEN {}
    ELSE IF Len(candidateMethods) = 0 THEN {}
    ELSE IF \E i \in 1..Len(candidateMethods) : candidateMethods[i].hasNetworkCallable
    THEN {}
    ELSE {"USH0004"}

\* ValidateNetworkParameterTypes over the candidate methods.
ValidateNetworkParameterTypesOf(candidateMethods, payload) ==
    LET matching == MatchingParameterCount(candidateMethods, payload)
    IN IF Len(payload) = 0 THEN {}
       ELSE IF Len(matching) = 0 THEN {"USH0005"}
       ELSE ValidateNetworkParameterTypes(matching[1].parameters[1], payload[1])

\* AnalyzeInvocation from the candidate methods on: USH0001, USH0002, USH0004
\* and USH0005.
SemanticRules(methods, isNetworkEvent, payload) ==
    LET candidateMethods == GetBehaviourMethods(methods)
    IN ValidateTargetExistence(candidateMethods)
       \cup ValidateTargetAccessibility(candidateMethods)
       \cup (IF isNetworkEvent
             THEN ValidateNetworkCallableAttribute(candidateMethods, payload)
                  \cup ValidateNetworkParameterTypesOf(candidateMethods, payload)
             ELSE {})

AnalyzeEventCalls ==
    { c \in [fn : {"AnalyzeEvent"}, returned : {FALSE},
             result : {[semantic |-> {}, syntaxOnly |-> {}]},
             methods : DeclarationLists, isNetworkEvent : BOOLEAN,
             payload : EventPayloads] :
      c.isNetworkEvent \/ c.payload = << >> }

CallAnalyzeEvent ==
    /\ call.fn = "AnalyzeEvent"
    /\ ~call.returned
    /\ call' = [call EXCEPT
                   !.returned = TRUE,
                   !.result = [semantic |-> SemanticRules(call.methods,
                                   call.isNetworkEvent, call.payload),
                               syntaxOnly |-> SyntaxOnlyRules(call.methods,
                                   call.isNetworkEvent, call.payload)]]
    /\ UNCHANGED << serverVars, clientVars >>

\* C30: for an event call whose target type and candidate methods, the
\* inherited ones included, are declared in the analysed file, the syntax-only
\* fallback reports the same rules among USH0001, USH0002, USH0004 and USH0005
\* as the semantic path.
C30_FallbackReportsSameRules ==
    Returned("AnalyzeEvent") => call.result.syntaxOnly = call.result.semantic

(***************************************************************************)
(* The settings on their way from the editor to the server.                *)
(***************************************************************************)
\* A ruleOverrides property written as the entries stand, by a client that
\* does not go through toRuleOverrides.
RECURSIVE AsWritten(_)
AsWritten(entries) ==
    IF entries = << >> THEN EmptyMap
    ELSE SetEntry(AsWritten(Tail(entries)), Head(entries).key, Head(entries).value)

\* The udonsharpLinter element of initializationOptions or of
\* workspace/didChangeConfiguration: from the extension's SettingsManager,
\* or from a client that writes the user's keys as they are.
SettingsElements ==
    { [section |-> TRUE, valid |-> TRUE, via |-> via, sender |-> sender, rules |-> rules,
       settings |-> [Default EXCEPT !.Profile = profile,
                                    !.RuleOverrides = IF sender = "extension"
                                                      THEN toRuleOverrides(rules)
                                                      ELSE AsWritten(rules)]] :
      via \in {"initializationOptions", "didChangeConfiguration"},
      sender \in {"extension", "other"},
      rules \in RawRules, profile \in {"latest", "strict_experimental"} }

UpdateCalls ==
    { [fn |-> "Update", returned |-> FALSE, result |-> Default, element |-> element] :
      element \in SettingsElements }

\* SettingsProvider.Update(JsonElement), then Current.
CallUpdate ==
    /\ call.fn = "Update"
    /\ ~call.returned
    /\ call' = [call EXCEPT !.returned = TRUE, !.result = Deserialize(call.element)]
    /\ UNCHANGED << serverVars, clientVars >>

\* C22: the keys of ruleOverrides in the snapshot the server takes from a
\* settings element are upper-case rule ids, and an override the user wrote
\* for USH0043 in any letter case decides the severity of USH0043.
C22_OverrideKeysAreUpperCase ==
    Returned("Update") =>
        /\ \A k \in DOMAIN call.result.RuleOverrides : k = ToUpperInvariant(k)
        /\ \A i \in DOMAIN call.element.rules :
               ( /\ call.element.rules[i].key = "ush0043"
                 /\ Len(call.element.rules) = 1 )
               => GetSeverity(policyRules, "USH0043", call.result)
                      = ToSeverity(call.element.rules[i].value)

Calls ==
    GetSeverityCalls \cup LoadCalls \cup AnalyzeNodesCalls \cup AnalyzeInvocationCalls
    \cup RequestCalls \cup UpdateCalls \cup ValidatePayloadCalls \cup AnalyzeEventCalls

InitCalls ==
    \E settings \in {Default, StrictSettings}, disk \in Disks :
        /\ ServerStarted(settings, disk)
        /\ call \in IF settings = Default /\ disk = InstalledDisk THEN Calls
                     ELSE RequestCalls
        /\ manager = NewSettingsManager(DefaultConfiguration)
        /\ controller = NewController
        /\ host = NewHost

NextCalls ==
    \/ CallGetSeverity
    \/ CallLoad
    \/ CallAnalyzeNodes
    \/ CallAnalyzeInvocation
    \/ CallRequest
    \/ CallUpdate
    \/ CallValidatePayload
    \/ CallAnalyzeEvent

SpecCalls == InitCalls /\ [][NextCalls]_vars

(***************************************************************************)
(* The extension's SettingsManager over a sequence of configuration        *)
(* changes of the editor.                                                  *)
(***************************************************************************)
\* SettingsManager.refresh.
Refreshed(held, configuration) ==
    LET next == readSettings(configuration)
    IN IF ~settingsAreEqual(held.currentSettings, next)
       THEN [configuration |-> configuration, currentSettings |-> next,
             last |-> [refreshed |-> TRUE, fired |-> TRUE, read |-> next,
                       before |-> held.currentSettings]]
       ELSE [configuration |-> configuration, currentSettings |-> held.currentSettings,
             last |-> [refreshed |-> TRUE, fired |-> FALSE, read |-> next,
                       before |-> held.currentSettings]]

\* The listener of vscode.workspace.onDidChangeConfiguration: the editor's
\* configuration has changed, in the udonsharpLinter section or elsewhere.
OnDidChangeConfiguration ==
    /\ \E configuration \in Configurations, affectsConfiguration \in BOOLEAN :
           manager' = IF affectsConfiguration
                      THEN Refreshed(manager, configuration)
                      ELSE manager
    /\ UNCHANGED << serverVars, call, controller, host >>

InitSettings ==
    /\ ServerStarted(Default, InstalledDisk)
    /\ call = NoCall
    /\ manager \in { NewSettingsManager(configuration) : configuration \in Configurations }
    /\ controller = NewController
    /\ host = NewHost

NextSettings == OnDidChangeConfiguration

SpecSettings == InitSettings /\ [][NextSettings]_vars

\* C24: a refresh fires the change event exactly when the snapshot it read
\* differs from the snapshot held before it, and a refresh that fires no event
\* leaves the held snapshot as it was.
C24_ChangeEventOnlyOnDifference ==
    manager.last.refreshed =>
        /\ manager.last.fired <=> manager.last.read # manager.last.before
        /\ ~manager.last.fired => manager.currentSettings = manager.last.before

\* The configuration was rewritten in a way that reads the same snapshot (an
\* override key in another letter case beside the upper-case one): no event.
C24_Witness ==
    /\ manager.last.refreshed
    /\ ~manager.last.fired
    /\ manager.last.read = manager.last.before
    /\ manager.configuration.rules = << Entry("ush0043", "off"), Entry("USH0043", "info") >>
    /\ manager.currentSettings.ruleOverrides = [x \in {"USH0043"} |-> "info"]

(***************************************************************************)
(* The extension's LanguageClientController.  start(), stop() and the      *)
(* restart callback are asynchronous: each action below is what one of     *)
(* them runs between two awaits.  A LanguageClient that is stopped, or     *)
(* whose connection has closed, rejects its pending start().               *)
(***************************************************************************)
State == [c |-> controller, h |-> host]

Apply(s) ==
    /\ controller' = s.c
    /\ host' = s.h
    /\ UNCHANGED << serverVars, call, manager >>

\* The clients that have been created and are neither stopped nor closed.
Live == {"starting", "running"}

CallFinished(s, p) == [s EXCEPT !.h.calls[p].pc = "done"]

\* clearStatusInterval().
clearStatusInterval(s) ==
    IF s.c.statusInterval # 0
    THEN [s EXCEPT !.h.intervals[s.c.statusInterval] = "cleared",
                   !.c.statusInterval = 0]
    ELSE s

\* scheduleRestart() without its restartPending guard.
scheduleRestartUnguarded(s) ==
    IF s.c.disposed THEN s
    ELSE IF s.c.restartAttempts >= MAX_RESTART_ATTEMPTS
    THEN [s EXCEPT !.h.cannotRestartShown = TRUE]
    ELSE LET n == s.c.restartAttempts + 1
             p == s.h.scheduled + 1
         IN [s EXCEPT !.c.restartPending = TRUE,
                      !.c.restartAttempts = n,
                      !.h.scheduled = p,
                      !.h.calls[p] = [pc |-> "pending", client |-> 0,
                                      delay |-> (2 ^ (n - 1)) * 1000]]

\* scheduleRestart(): sets the restart timer.
scheduleRestart(s) ==
    IF s.c.disposed THEN s
    ELSE IF s.c.restartPending THEN s
    ELSE IF s.c.restartAttempts >= MAX_RESTART_ATTEMPTS
    THEN [s EXCEPT !.h.cannotRestartShown = TRUE]
    ELSE LET n == s.c.restartAttempts + 1
             p == s.h.scheduled + 1
         IN [s EXCEPT !.c.restartPending = TRUE,
                      !.c.restartAttempts = n,
                      !.h.scheduled = p,
                      !.h.calls[p] = [pc |-> "pending", client |-> 0,
                                      delay |-> (2 ^ (n - 1)) * 1000]]

\* A run sets at most MaxRestarts timers.
CanSchedule == host.scheduled < MaxRestarts

\* start() up to its first await: the two early returns, then
\* await createLanguageClient().
startEntered(s, p) ==
    IF s.c.disposed \/ s.c.client # 0
    THEN CallFinished(s, p)
    ELSE [s EXCEPT !.h.calls[p].pc = "creating"]

\* start() has thrown: activate catches and shows a message, the restart
\* callback catches and calls scheduleRestart().
startThrew(s, p) ==
    LET t == IF p = Activation THEN s ELSE scheduleRestart(s)
    IN [t EXCEPT !.h.calls[p].pc = "rejected"]

\* stop() up to its await of current.stop().
stopCalled(s) ==
    LET t == clearStatusInterval(s)
        current == t.c.client
    IN IF current # 0
       THEN [t EXCEPT !.c.client = 0,
                      !.h.clients[current] = IF @ \in Live THEN "stopped" ELSE @]
       ELSE t

\* The restart callback after its stop(): client = undefined, the disposed
\* check, then start().
restartContinued(s, p) ==
    LET t == [s EXCEPT !.c.client = 0]
    IN IF t.c.disposed THEN CallFinished(t, p) ELSE startEntered(t, p)

\* activate(): await clientController.start().
Activate ==
    /\ host.calls[Activation].pc = "idle"
    /\ Apply(startEntered(State, Activation))

\* start() resumes after await createLanguageClient(): the client and the
\* status timer are stored, client.start() is called and awaited.
ClientCreated(p) ==
    /\ host.calls[p].pc = "creating"
    /\ host.created < MaxClients
    /\ LET k == host.created + 1
       IN Apply([State EXCEPT !.h.created = k,
                              !.h.clients[k] = "starting",
                              !.h.intervals[k] = "active",
                              !.c.client = k,
                              !.c.statusInterval = k,
                              !.h.calls[p] = [pc |-> "starting", client |-> k,
                                              delay |-> @.delay]])

\* createLanguageClient() rejects (the server executable cannot be accessed).
ClientCreationFailed(p) ==
    /\ host.calls[p].pc = "creating"
    /\ CanSchedule
    /\ Apply(startThrew(State, p))

\* start() resumes after await client.start() has resolved; the awaits that
\* follow (ruleRepository.initialise, requestServerStatus) catch their errors
\* and change no field of the controller.
ClientStarted(p) ==
    /\ host.calls[p].pc = "starting"
    /\ host.clients[host.calls[p].client] = "starting"
    /\ Apply(CallFinished([State EXCEPT !.h.clients[host.calls[p].client] = "running",
                                    !.c.restartAttempts = 0], p))

\* await client.start() has rejected: the catch block of start().
ClientStartFailed(p) ==
    /\ host.calls[p].pc = "starting"
    /\ CanSchedule
    /\ LET t == [State EXCEPT !.h.clients[host.calls[p].client] =
                                  IF @ = "starting" THEN "failed" ELSE @]
           u == clearStatusInterval(t)
       IN Apply(startThrew([u EXCEPT !.c.client = 0], p))

\* errorHandler.closed: the connection of a client has closed.
ConnectionClosed(k) ==
    /\ host.clients[k] \in Live
    /\ CanSchedule
    /\ Apply(scheduleRestart([State EXCEPT !.h.clients[k] = "closed"]))

\* The setTimeout callback of scheduleRestart() up to its first await.
RestartTimer(p) ==
    /\ host.calls[p].pc = "pending"
    /\ LET t == [State EXCEPT !.c.restartPending = FALSE]
       IN IF t.c.client # 0
          THEN Apply([stopCalled(t) EXCEPT !.h.calls[p].pc = "stopping"])
          ELSE Apply(restartContinued(t, p))

\* The callback resumes after await this.stop().
RestartStopped(p) ==
    /\ host.calls[p].pc = "stopping"
    /\ Apply(restartContinued(State, p))

\* deactivate(): await clientController.stop().
Deactivate ==
    /\ host.calls[Activation].pc # "idle"
    /\ ~host.deactivated
    /\ Apply([stopCalled(State) EXCEPT !.h.deactivated = TRUE])

\* dispose().
Dispose ==
    /\ host.calls[Activation].pc # "idle"
    /\ ~controller.disposed
    /\ Apply(stopCalled(clearStatusInterval([State EXCEPT !.c.disposed = TRUE])))

InitController ==
    /\ ServerStarted(Default, InstalledDisk)
    /\ call = NoCall
    /\ manager = NewSettingsManager(DefaultConfiguration)
    /\ controller = NewController
    /\ host = NewHost

NextController ==
    \/ Activate
    \/ \E p \in CallIds : ClientCreated(p)
    \/ \E p \in CallIds : ClientCreationFailed(p)
    \/ \E p \in CallIds : ClientStarted(p)
    \/ \E p \in CallIds : ClientStartFailed(p)
    \/ \E k \in ClientIds : ConnectionClosed(k)
    \/ \E p \in TimerIds : RestartTimer(p)
    \/ \E p \in TimerIds : RestartStopped(p)
    \/ Deactivate
    \/ Dispose

SpecController == InitController /\ [][NextController]_vars

LiveClients == { k \in ClientIds : host.clients[k] \in Live }
ActiveIntervals == { k \in ClientIds : host.intervals[k] = "active" }
PendingTimers == { p \in TimerIds : host.calls[p].pc = "pending" }

\* C26: at every moment at most one created client is neither stopped nor
\* closed and at most one status timer is uncleared, under every interleaving
\* of start(), stop(), connection-closed events and restart callbacks.
C26_OneClientOneStatusTimer ==
    /\ Cardinality(LiveClients) <= 1
    /\ Cardinality(ActiveIntervals) <= 1

\* No asynchronous call of the controller is suspended or waiting to run.
NoCallInFlight == \A p \in CallIds : host.calls[p].pc \in {"idle", "done", "rejected"}

\* C27: once dispose() has been called and every start() and restart that was
\* pending or in progress has run to its end, no client is left started and
\* no status timer is left active.
C27_NothingLeftAfterDispose ==
    (controller.disposed /\ NoCallInFlight) =>
        (LiveClients = {} /\ ActiveIntervals = {})

\* Every start() made so far has succeeded or is still in progress.
NoStartRejected == \A p \in CallIds : host.calls[p].pc # "rejected"

\* C28: automatic restarting terminates: while the extension is neither
\* deactivated nor disposed, a run in which every start() succeeds and the
\* connection closes again afterwards sets at most MAX_RESTART_ATTEMPTS
\* restart timers.
C28_RestartAttemptsBounded ==
    (NoStartRejected /\ ~host.deactivated /\ ~controller.disposed) =>
        host.scheduled <= MAX_RESTART_ATTEMPTS

\* C29: at most one restart timer is pending at any time, and it is pending
\* exactly while restartPending is set; a step taken while a restart is
\* scheduled (a connection-closed event, a failed restart) sets no second
\* timer and advances neither the attempt counter nor the delay of the
\* pending timer; the timer set for the n-th consecutive attempt has a delay
\* of 2^(n-1) seconds.
C29_OneRestartTimerPending ==
    /\ [](/\ Cardinality(PendingTimers) <= 1
          /\ controller.restartPending <=> PendingTimers # {})
    /\ [][/\ controller.restartPending =>
                /\ host.scheduled' = host.scheduled
                /\ controller.restartAttempts' <= controller.restartAttempts
                /\ \A p \in PendingTimers :
                       host.calls'[p].delay = host.calls[p].delay
          /\ host.scheduled' # host.scheduled =>
                /\ host.scheduled' = host.scheduled + 1
                /\ controller.restartAttempts' = controller.restartAttempts + 1
                /\ host.calls'[host.scheduled'].delay
                       = (2 ^ (controller.restartAttempts' - 1)) * 1000]_vars

\* The connection of the client of the first restart closed while its start()
\* was awaited, which scheduled the second restart; that start() was then
\* rejected and its catch called scheduleRestart(): the second timer is still
\* the only one pending, with the delay of the second attempt.
C29_Witness ==
    /\ host.calls[1].pc = "rejected"
    /\ host.calls[1].client = 2
    /\ host.clients[2] = "closed"
    /\ host.calls[2].pc = "pending"
    /\ host.scheduled = 2
    /\ controller.restartAttempts = 2
    /\ host.calls[2].delay = 2000

====
